---------------------------- MODULE Spec2Model ----------------------------
(***************************************************************************)
(* The Home component of the Pandora launcher website                      *)
(* (src/src/routes/home.rs): the release fetch hook, the render pass that  *)
(* classifies the release assets into a category -> URL map, detects the   *)
(* visitor's operating system and builds the download controls.            *)
(*                                                                         *)
(* Strings are TLA+ strings; Option<T> is a sequence of length 0 (None)    *)
(* or 1 (Some); a HashMap is a function whose DOMAIN is its key set.       *)
(***************************************************************************)
EXTENDS Integers, Sequences, FiniteSets, TLC

VARIABLES
    env,              \* the browser: is there a window, what user_agent() gives
    releases,         \* the UseAsyncState handle: loading, data, error
    dirty,            \* a render of the component is scheduled
    pc,               \* position inside home(): idle, for, detect, html, crashed
    idx,              \* position of the for loop in data.assets
    releases_by_type, \* the HashMap built by the render pass
    operating_system, \* the OperatingSystem picked by the render pass
    html              \* the Html the last completed render returned (Option)

vars == <<env, releases, dirty, pc, idx, releases_by_type, operating_system, html>>

(***************************************************************************)
(* Bounds of the model.                                                    *)
(***************************************************************************)
MaxAssets == 2
MaxNameFrags == 3
MaxAgentFrags == 2

(***************************************************************************)
(* Option<T>                                                               *)
(***************************************************************************)
None == <<>>
Some(x) == <<x>>

(***************************************************************************)
(* str::ends_with and str::contains.                                       *)
(***************************************************************************)
EndsWith(s, suffix) ==
    /\ Len(s) >= Len(suffix)
    /\ SubSeq(s, Len(s) - Len(suffix) + 1, Len(s)) = suffix

Contains(s, pat) ==
    \E i \in 1..(Len(s) - Len(pat) + 1) : SubSeq(s, i, i + Len(pat) - 1) = pat

(***************************************************************************)
(* enum DownloadType and enum OperatingSystem.                             *)
(***************************************************************************)
DownloadType ==
    {"WindowsInstaller", "WindowsPortable", "LinuxDebianInstaller",
     "LinuxAppImage", "LinuxPortable", "MacInstaller", "MacPortable"}

OperatingSystem == {"Windows", "Linux", "MacOS", "Unknown"}

(***************************************************************************)
(* HashMap::new, HashMap::insert, HashMap::get(..).cloned().               *)
(***************************************************************************)
HashMap_new == [c \in {} |-> ""]

\* Faulty variant: an entry already present is not overwritten.
insert_keep_first(map, k, v) ==
    [c \in DOMAIN map \cup {k} |-> IF c \in DOMAIN map THEN map[c] ELSE v]

\* Faulty variant: the insertion drops every other entry.
insert_clearing(map, k, v) == [c \in {k} |-> v]

insert(map, k, v) ==
    [c \in DOMAIN map \cup {k} |-> IF c = k THEN v ELSE map[c]]

get(map, k) == IF k \in DOMAIN map THEN Some(map[k]) ELSE None

(***************************************************************************)
(* The if / else-if chain of the for loop: Some(category), or None where   *)
(* the code logs the file name and continues.                              *)
(***************************************************************************)
\* Faulty variant: ".exe" is tested before "-setup.exe".
download_type_exe_first(name) ==
    IF EndsWith(name, ".dmg") THEN Some("MacInstaller")
    ELSE IF EndsWith(name, ".AppImage") THEN Some("LinuxAppImage")
    ELSE IF EndsWith(name, ".deb") THEN Some("LinuxDebianInstaller")
    ELSE IF EndsWith(name, ".exe") THEN Some("WindowsPortable")
    ELSE IF EndsWith(name, "-setup.exe") THEN Some("WindowsInstaller")
    ELSE IF Contains(name, "-macOS") THEN Some("MacPortable")
    ELSE IF Contains(name, "-Linux") THEN Some("LinuxPortable")
    ELSE None

\* Faulty variant: the last test is dropped and its category is the default.
download_type_default(name) ==
    IF EndsWith(name, ".dmg") THEN Some("MacInstaller")
    ELSE IF EndsWith(name, ".AppImage") THEN Some("LinuxAppImage")
    ELSE IF EndsWith(name, ".deb") THEN Some("LinuxDebianInstaller")
    ELSE IF EndsWith(name, "-setup.exe") THEN Some("WindowsInstaller")
    ELSE IF EndsWith(name, ".exe") THEN Some("WindowsPortable")
    ELSE IF Contains(name, "-macOS") THEN Some("MacPortable")
    ELSE Some("LinuxPortable")

download_type(name) ==
    IF EndsWith(name, ".dmg") THEN Some("MacInstaller")
    ELSE IF EndsWith(name, ".AppImage") THEN Some("LinuxAppImage")
    ELSE IF EndsWith(name, ".deb") THEN Some("LinuxDebianInstaller")
    ELSE IF EndsWith(name, "-setup.exe") THEN Some("WindowsInstaller")
    ELSE IF EndsWith(name, ".exe") THEN Some("WindowsPortable")
    ELSE IF Contains(name, "-macOS") THEN Some("MacPortable")
    ELSE IF Contains(name, "-Linux") THEN Some("LinuxPortable")
    ELSE None

(***************************************************************************)
(* One iteration of `for asset in &data.assets` at position i: the map     *)
(* after it and the position the loop goes on from.                        *)
(***************************************************************************)
\* Faulty variant: an unmatched name ends the loop (break for continue).
for_body_break(map, assets, i) ==
    LET t == download_type(assets[i].name)
    IN  IF t = None
        THEN [map |-> map, next |-> Len(assets) + 1]
        ELSE [map |-> insert(map, t[1], assets[i].browser_download_url),
              next |-> i + 1]

for_body(map, assets, i) ==
    LET t == download_type(assets[i].name)
    IN  IF t = None
        THEN [map |-> map, next |-> i + 1]
        ELSE [map |-> insert(map, t[1], assets[i].browser_download_url),
              next |-> i + 1]

(***************************************************************************)
(* The whole loop over a list of assets, as the render pass runs it.       *)
(***************************************************************************)
RECURSIVE for_from(_, _, _)
for_from(map, assets, i) ==
    IF i > Len(assets) THEN map
    ELSE LET r == for_body(map, assets, i)
         IN  for_from(r.map, assets, r.next)

(***************************************************************************)
(* The user-agent chain; user_agent is the Result of                       *)
(* navigator().user_agent(): [ok |-> TRUE, value |-> s] or an Err.         *)
(***************************************************************************)
\* Faulty variant: "Win" is tested before "Mac".
detect_win_first(user_agent) ==
    IF user_agent.ok
    THEN IF Contains(user_agent.value, "Win") THEN "Windows"
         ELSE IF Contains(user_agent.value, "Mac") THEN "MacOS"
         ELSE IF Contains(user_agent.value, "Linux") THEN "Linux"
         ELSE "Unknown"
    ELSE "Unknown"

detect(user_agent) ==
    IF user_agent.ok
    THEN IF Contains(user_agent.value, "Mac") THEN "MacOS"
         ELSE IF Contains(user_agent.value, "Win") THEN "Windows"
         ELSE IF Contains(user_agent.value, "Linux") THEN "Linux"
         ELSE "Unknown"
    ELSE "Unknown"

(***************************************************************************)
(* The DownloadLink component: an anchor around the button when there is   *)
(* a link, the bare button otherwise.                                      *)
(***************************************************************************)
download_link(name, link) ==
    IF link # None
    THEN [tag |-> "a", href |-> link, label |-> name]
    ELSE [tag |-> "button", href |-> None, label |-> name]

(***************************************************************************)
(* The html! block: the OS-specific primary control (the children of the   *)
(* first flex column before "View downloads"), and the Downloads tiles.    *)
(***************************************************************************)
\* Faulty variant: Linux gets a primary control as well.
primary_control_linux_too(os, map) ==
    IF os = "Windows"
    THEN <<download_link("Download Windows Installer (.exe)",
                         get(map, "WindowsInstaller"))>>
    ELSE IF os = "MacOS"
    THEN <<download_link("Download macOS Installer (.dmg)",
                         get(map, "MacInstaller"))>>
    ELSE IF os = "Linux"
    THEN <<download_link("Download Debian Installer (.deb)",
                         get(map, "LinuxDebianInstaller"))>>
    ELSE <<>>

primary_control(os, map) ==
    IF os = "Windows"
    THEN <<download_link("Download Windows Installer (.exe)",
                         get(map, "WindowsInstaller"))>>
    ELSE IF os = "MacOS"
    THEN <<download_link("Download macOS Installer (.dmg)",
                         get(map, "MacInstaller"))>>
    ELSE <<>>

\* Faulty variant: the Linux portable control looks up LinuxAppImage.
downloads_tiles_wrong_key(map) ==
    << [section |-> "Windows x64",
        control |-> download_link("Installer .exe", get(map, "WindowsInstaller"))],
       [section |-> "Windows x64",
        control |-> download_link("Portable Executable .exe", get(map, "WindowsPortable"))],
       [section |-> "Linux x64",
        control |-> download_link("Debian Installer .deb", get(map, "LinuxDebianInstaller"))],
       [section |-> "Linux x64",
        control |-> download_link("AppImage .AppImage", get(map, "LinuxAppImage"))],
       [section |-> "Linux x64",
        control |-> download_link("Portable Executable", get(map, "LinuxAppImage"))],
       [section |-> "macOS",
        control |-> download_link("Installer .dmg", get(map, "MacInstaller"))],
       [section |-> "macOS",
        control |-> download_link("Portable Executable", get(map, "MacPortable"))] >>

downloads_tiles(map) ==
    << [section |-> "Windows x64",
        control |-> download_link("Installer .exe", get(map, "WindowsInstaller"))],
       [section |-> "Windows x64",
        control |-> download_link("Portable Executable .exe", get(map, "WindowsPortable"))],
       [section |-> "Linux x64",
        control |-> download_link("Debian Installer .deb", get(map, "LinuxDebianInstaller"))],
       [section |-> "Linux x64",
        control |-> download_link("AppImage .AppImage", get(map, "LinuxAppImage"))],
       [section |-> "Linux x64",
        control |-> download_link("Portable Executable", get(map, "LinuxPortable"))],
       [section |-> "macOS",
        control |-> download_link("Installer .dmg", get(map, "MacInstaller"))],
       [section |-> "macOS",
        control |-> download_link("Portable Executable", get(map, "MacPortable"))] >>

page(os, map) ==
    [primary |-> primary_control(os, map),
     view_downloads |-> [tag |-> "a", href |-> Some("#downloads"), label |-> "View downloads"],
     downloads |-> downloads_tiles(map)]

(***************************************************************************)
(* Inputs: release manifests and browsers.                                 *)
(***************************************************************************)
RECURSIVE Concats(_, _)
Concats(frags, n) ==
    IF n = 0 THEN {""}
    ELSE LET shorter == Concats(frags, n - 1)
         IN  shorter \cup {s \o f : s \in shorter, f \in frags}

RECURSIVE SeqsUpTo(_, _)
SeqsUpTo(S, n) ==
    IF n = 0 THEN {<<>>}
    ELSE LET shorter == SeqsUpTo(S, n - 1)
         IN  shorter \cup {Append(s, x) : s \in shorter, x \in S}

AssetNames ==
    {"App-1.0.0-setup.exe", "App-1.0.0.exe", "App-1.0.0.dmg",
     "App-1.0.0.AppImage", "App-1.0.0.deb", "App-1.0.0-Linux",
     "App-1.0.0-macOS", "App-Linux.deb", "random.txt"}

Urls == {"a", "b"}

GitHubReleaseAsset ==
    [name : AssetNames, browser_download_url : Urls]

GitHubReleases ==
    {[assets |-> s] : s \in SeqsUpTo(GitHubReleaseAsset, MaxAssets)}

NameFrags ==
    {"App", "-setup", ".exe", ".dmg", ".deb", ".AppImage", "-macOS",
     "-Linux", "-linux", ".txt", ".DMG"}

WideNames == Concats(NameFrags, MaxNameFrags)

AgentFrags ==
    {"Mozilla/5.0 ", "(Windows NT 10.0; Win64)", "(Macintosh; Intel Mac OS X)",
     "(X11; Linux x86_64)", "Mac", "Win", "Linux", "mac", "WIN", "linux"}

WideAgents == Concats(AgentFrags, MaxAgentFrags)

Ok(s) == [ok |-> TRUE, value |-> s]
Err == [ok |-> FALSE, value |-> ""]

Browser(ua) == [window |-> TRUE, user_agent |-> ua]
NoWindow == [window |-> FALSE, user_agent |-> Err]

Browsers ==
    {NoWindow, Browser(Err), Browser(Ok("")),
     Browser(Ok("Mozilla/5.0 (Windows NT 10.0; Win64)")),
     Browser(Ok("Mozilla/5.0 (Macintosh; Intel Mac OS X)")),
     Browser(Ok("X11; Linux x86_64"))}

(***************************************************************************)
(* The state of a freshly mounted component: the use_async handle before   *)
(* the future has run, and its first render scheduled.                     *)
(***************************************************************************)
UseAsyncState_default == [loading |-> FALSE, data |-> None, error |-> None]

Mounted ==
    /\ releases = UseAsyncState_default
    /\ dirty = TRUE
    /\ pc = "idle"
    /\ idx = 1
    /\ releases_by_type = HashMap_new
    /\ operating_system = "Unknown"
    /\ html = None

Init ==
    /\ env \in Browsers
    /\ Mounted

(***************************************************************************)
(* use_async_with_options(.., enable_auto()): the future runs once, after  *)
(* the first render of the mounted component, and its outcome is stored in *)
(* the handle; every change of the handle schedules a render, which runs   *)
(* before the next event.                                                  *)
(***************************************************************************)
FetchStart ==
    /\ pc = "idle" /\ ~dirty /\ html # None
    /\ releases = UseAsyncState_default
    /\ releases' = [releases EXCEPT !.loading = TRUE]
    /\ dirty' = TRUE
    /\ UNCHANGED <<env, pc, idx, releases_by_type, operating_system, html>>

FetchOk ==
    /\ pc = "idle" /\ ~dirty
    /\ releases.loading
    /\ \E r \in GitHubReleases :
          releases' = [loading |-> FALSE, data |-> Some(r), error |-> None]
    /\ dirty' = TRUE
    /\ UNCHANGED <<env, pc, idx, releases_by_type, operating_system, html>>

FetchErr ==
    /\ pc = "idle" /\ ~dirty
    /\ releases.loading
    /\ releases' = [releases EXCEPT !.loading = FALSE, !.error = Some("()")]
    /\ dirty' = TRUE
    /\ UNCHANGED <<env, pc, idx, releases_by_type, operating_system, html>>

(***************************************************************************)
(* The route is left and entered again: a new component instance with a    *)
(* fresh handle; the old instance's output is removed from the page.       *)
(***************************************************************************)
Remount ==
    /\ pc = "idle" /\ ~dirty /\ html # None
    /\ releases' = UseAsyncState_default
    /\ dirty' = TRUE
    /\ html' = None
    /\ UNCHANGED <<env, pc, idx, releases_by_type, operating_system>>

(***************************************************************************)
(* One render pass of home(), in program order.                            *)
(***************************************************************************)
\* Faulty variant: the map of the previous pass is kept.
RenderBegin_stale_map ==
    /\ pc = "idle"
    /\ idx' = 1
    /\ pc' = IF releases.data # None /\ Len(releases.data[1].assets) >= 1
             THEN "for" ELSE "detect"
    /\ UNCHANGED <<env, releases, dirty, releases_by_type, operating_system, html>>

RenderBegin ==
    /\ pc = "idle"
    /\ releases_by_type' = HashMap_new
    /\ idx' = 1
    /\ pc' = IF releases.data # None /\ Len(releases.data[1].assets) >= 1
             THEN "for" ELSE "detect"
    /\ UNCHANGED <<env, releases, dirty, operating_system, html>>

ForAsset ==
    /\ pc = "for"
    /\ LET assets == releases.data[1].assets
           r == for_body(releases_by_type, assets, idx)
       IN  /\ releases_by_type' = r.map
           /\ idx' = r.next
           /\ pc' = IF r.next > Len(assets) THEN "detect" ELSE "for"
    /\ UNCHANGED <<env, releases, dirty, operating_system, html>>

Detect ==
    /\ pc = "detect"
    /\ IF env.window
       THEN /\ operating_system' = detect(env.user_agent)
            /\ pc' = "html"
       ELSE /\ pc' = "crashed"
            /\ UNCHANGED operating_system
    /\ UNCHANGED <<env, releases, dirty, idx, releases_by_type, html>>

Present ==
    /\ pc = "html"
    /\ html' = Some(page(operating_system, releases_by_type))
    /\ pc' = "idle"
    /\ dirty' = FALSE
    /\ UNCHANGED <<env, releases, idx, releases_by_type, operating_system>>

Render == RenderBegin \/ ForAsset \/ Detect \/ Present

Next == FetchStart \/ FetchOk \/ FetchErr \/ Remount \/ Render

Spec == Init /\ [][Next]_vars

(***************************************************************************)
(* The render pass on wide inputs: a fetched release of one asset whose    *)
(* name is any concatenation of naming fragments, or a browser whose user  *)
(* agent is any concatenation of user-agent fragments.                     *)
(***************************************************************************)
InitInputs ==
    /\ \E n \in WideNames, ua \in WideAgents :
          /\ \/ ua = "Mozilla/5.0 (X11; Linux x86_64)"
             \/ n = "App-setup.exe"
          /\ env = Browser(Ok(ua))
          /\ releases = [loading |-> FALSE, error |-> None,
                         data |-> Some([assets |->
                             <<[name |-> n, browser_download_url |-> "a"]>>])]
    /\ dirty = TRUE
    /\ pc = "idle"
    /\ idx = 1
    /\ releases_by_type = HashMap_new
    /\ operating_system = "Unknown"
    /\ html = None

SpecInputs == InitInputs /\ [][Render]_vars

(***************************************************************************)
(* The documented behaviour, stated independently of the code above: the   *)
(* ordered rule tables of the classifier and of the detector, and the map  *)
(* a list of assets is documented to produce.                              *)
(***************************************************************************)
Rules ==
    << [test |-> "ends with", pat |-> ".dmg", category |-> "MacInstaller"],
       [test |-> "ends with", pat |-> ".AppImage", category |-> "LinuxAppImage"],
       [test |-> "ends with", pat |-> ".deb", category |-> "LinuxDebianInstaller"],
       [test |-> "ends with", pat |-> "-setup.exe", category |-> "WindowsInstaller"],
       [test |-> "ends with", pat |-> ".exe", category |-> "WindowsPortable"],
       [test |-> "contains", pat |-> "-macOS", category |-> "MacPortable"],
       [test |-> "contains", pat |-> "-Linux", category |-> "LinuxPortable"] >>

RuleHolds(r, name) ==
    IF r.test = "ends with" THEN EndsWith(name, r.pat) ELSE Contains(name, r.pat)

Matching(name) == {i \in 1..Len(Rules) : RuleHolds(Rules[i], name)}

\* Some(category of the first rule that matches), None when no rule does.
FirstMatch(name) ==
    LET m == Matching(name)
    IN  IF m = {} THEN None
        ELSE Some(Rules[CHOOSE i \in m : \A j \in m : i <= j].category)

\* FirstMatch, tabulated over the asset names the specifications draw from.
CategoryTable == [n \in AssetNames \cup WideNames |-> FirstMatch(n)]

Category(name) == CategoryTable[name]

PlatformRules ==
    << [pat |-> "Mac", platform |-> "MacOS"],
       [pat |-> "Win", platform |-> "Windows"],
       [pat |-> "Linux", platform |-> "Linux"] >>

PlatformMatching(s) ==
    {i \in 1..Len(PlatformRules) : Contains(s, PlatformRules[i].pat)}

Platform(s) ==
    LET m == PlatformMatching(s)
    IN  IF m = {} THEN "Unknown"
        ELSE PlatformRules[CHOOSE i \in m : \A j \in m : i <= j].platform

\* The positions of `assets` that classify to category c.
Classifying(assets, c) ==
    {j \in 1..Len(assets) : Category(assets[j].name) = Some(c)}

Last(S) == CHOOSE j \in S : \A k \in S : k <= j

\* The documented result for a fetch result: last write wins per category.
ExpectedMap(data) ==
    IF data = None THEN [c \in {} |-> ""]
    ELSE LET assets == data[1].assets
             filed == {Category(assets[j].name)[1] :
                          j \in {k \in 1..Len(assets) : Category(assets[k].name) # None}}
         IN  [c \in filed |->
                 assets[Last(Classifying(assets, c))].browser_download_url]

Assets == IF releases.data = None THEN <<>> ELSE releases.data[1].assets

InLoop == pc = "for"
LoopDone == pc \in {"detect", "html"}

\* The assets the running render pass has been through.
Processed == IF InLoop THEN SubSeq(Assets, 1, idx - 1) ELSE Assets

\* A completed render whose output is that of the current handle.
Rendered == pc = "idle" /\ ~dirty /\ html # None

Reorderings(s) ==
    {[i \in 1..Len(s) |-> s[p[i]]] :
        p \in {q \in [1..Len(s) -> 1..Len(s)] :
                  \A a, b \in 1..Len(s) : a # b => q[a] # q[b]}}

\* The category each control of the Downloads list stands for.
ControlCategory ==
    << [section |-> "Windows x64", label |-> "Installer .exe", category |-> "WindowsInstaller"],
       [section |-> "Windows x64", label |-> "Portable Executable .exe", category |-> "WindowsPortable"],
       [section |-> "Linux x64", label |-> "Debian Installer .deb", category |-> "LinuxDebianInstaller"],
       [section |-> "Linux x64", label |-> "AppImage .AppImage", category |-> "LinuxAppImage"],
       [section |-> "Linux x64", label |-> "Portable Executable", category |-> "LinuxPortable"],
       [section |-> "macOS", label |-> "Installer .dmg", category |-> "MacInstaller"],
       [section |-> "macOS", label |-> "Portable Executable", category |-> "MacPortable"] >>

\* The entries of a rendered Downloads list that stand for category c.
ControlsFor(downloads, c) ==
    {i \in 1..Len(downloads) :
        \E k \in 1..Len(ControlCategory) :
            /\ ControlCategory[k].category = c
            /\ ControlCategory[k].section = downloads[i].section
            /\ ControlCategory[k].label = downloads[i].control.label}

\* A control is an active hyperlink to url / an inert button.
ActiveTo(control, url) == control.tag = "a" /\ control.href = Some(url)
Inert(control) == control.tag = "button" /\ control.href = None

\* A control bound to entry c of map m: active to m[c] if present, else inert.
BoundTo(control, m, c) ==
    IF c \in DOMAIN m THEN ActiveTo(control, m[c]) ELSE Inert(control)

(***************************************************************************)
(* C1: every step of the loop files the asset under the category of the    *)
(* first rule, in the documented order, that its name matches: the key set *)
(* grows by exactly that category (by nothing when no rule matches) and    *)
(* that key then holds the asset's URL.                                    *)
(***************************************************************************)
C1_FirstRuleWins ==
    [][InLoop =>
         LET asset == Assets[idx]
             c == Category(asset.name)
         IN  /\ DOMAIN releases_by_type' =
                    DOMAIN releases_by_type \cup (IF c = None THEN {} ELSE {c[1]})
             /\ c # None => releases_by_type'[c[1]] = asset.browser_download_url]_vars

\* A name matching several rules has been filed under the first of them.
C1_Witness ==
    /\ LoopDone /\ Len(Assets) = 1
    /\ Cardinality(Matching(Assets[1].name)) >= 2
    /\ EndsWith(Assets[1].name, "-setup.exe")
    /\ DOMAIN releases_by_type = {"WindowsInstaller"}

(***************************************************************************)
(* C2: last write wins: when the loop is over, every category that some    *)
(* asset classifies to holds the URL of the last such asset.               *)
(***************************************************************************)
C2_LastWriteWins ==
    (LoopDone /\ releases.data # None) =>
        \A c \in DownloadType :
            Classifying(Assets, c) # {} =>
                /\ c \in DOMAIN releases_by_type
                /\ releases_by_type[c] =
                       Assets[Last(Classifying(Assets, c))].browser_download_url

\* Two assets of one category with different URLs; the second one's is kept.
C2_Witness ==
    /\ LoopDone /\ Len(Assets) = 2
    /\ EndsWith(Assets[1].name, ".dmg") /\ EndsWith(Assets[2].name, ".dmg")
    /\ Assets[1].browser_download_url = "a"
    /\ Assets[2].browser_download_url = "b"
    /\ releases_by_type["MacInstaller"] = "b"

(***************************************************************************)
(* C3: after any prefix of the assets, the keys of the map are exactly the *)
(* categories some processed asset classifies to, all of them among the    *)
(* seven variants, each holding the URL of a processed asset of that       *)
(* category; with no assets the map is empty.                              *)
(***************************************************************************)
C3_KeysAreMatchedCategories ==
    (InLoop \/ LoopDone) =>
        /\ DOMAIN releases_by_type =
               {c \in DownloadType : Classifying(Processed, c) # {}}
        /\ DOMAIN releases_by_type \subseteq DownloadType
        /\ \A c \in DOMAIN releases_by_type :
               \E j \in Classifying(Processed, c) :
                   releases_by_type[c] = Processed[j].browser_download_url
        /\ Processed = <<>> => releases_by_type = <<>>

\* In the middle of the loop: one asset filed, another category still to come.
C3_Witness ==
    /\ InLoop /\ idx = 2
    /\ DOMAIN releases_by_type = {"LinuxDebianInstaller"}
    /\ Category(Assets[2].name) = Some("WindowsPortable")

(***************************************************************************)
(* C4: a step of the loop on an asset that no rule matches leaves the map  *)
(* as it was, does not fail, and goes on with the next asset; when the     *)
(* loop ends every asset that a rule matches has its category in the map.  *)
(***************************************************************************)
C4_UnmatchedIsSkipped ==
    [][InLoop =>
         /\ Category(Assets[idx].name) = None =>
                /\ releases_by_type' = releases_by_type
                /\ idx' = idx + 1
                /\ pc' = IF idx < Len(Assets) THEN "for" ELSE "detect"
         /\ pc' # "for" =>
                \A j \in 1..Len(Assets) :
                    Category(Assets[j].name) # None =>
                        Category(Assets[j].name)[1] \in DOMAIN releases_by_type']_vars

\* An unmatched asset came first and the asset after it was still filed.
C4_Witness ==
    /\ LoopDone /\ Len(Assets) = 2
    /\ Category(Assets[1].name) = None
    /\ Category(Assets[2].name) = Some("MacPortable")
    /\ releases_by_type = [c \in {"MacPortable"} |-> Assets[2].browser_download_url]

(***************************************************************************)
(* C5: for an available user agent the detected platform is that of the    *)
(* first test, in the order Mac, Win, Linux, that the string passes, and   *)
(* Unknown when it passes none.                                            *)
(***************************************************************************)
C5_FirstPlatformWins ==
    (pc = "html" /\ env.window /\ env.user_agent.ok) =>
        operating_system = Platform(env.user_agent.value)

\* A user agent with both "Mac" and "Win" in it was detected as MacOS.
C5_Witness ==
    /\ pc = "html" /\ env.user_agent.ok
    /\ Contains(env.user_agent.value, "Win")
    /\ Contains(env.user_agent.value, "Mac")
    /\ ~EndsWith(env.user_agent.value, "Mac")
    /\ operating_system = "MacOS"

(***************************************************************************)
(* C6: detection never fails: no render crashes, and a render pass in an   *)
(* environment without an available identifier detects Unknown.            *)
(***************************************************************************)
C6_DetectionNeverFails ==
    /\ pc # "crashed"
    /\ (pc = "html" /\ ~(env.window /\ env.user_agent.ok)) =>
           operating_system = "Unknown"

(***************************************************************************)
(* C7: the map a render pass ends up with is the documented classification *)
(* of the fetch result of that moment, whatever earlier passes built, and  *)
(* it is empty while the fetch is pending or has failed.                   *)
(***************************************************************************)
C7_MapIsOfCurrentFetch ==
    /\ (releases.loading \/ releases.error # None) => releases.data = None
    /\ LoopDone => releases_by_type = ExpectedMap(releases.data)
    /\ (LoopDone /\ releases.data = None) => releases_by_type = <<>>

\* A pass over fetched assets that follows a pass rendered without data.
C7_Witness ==
    /\ LoopDone /\ releases.data # None
    /\ Cardinality(DOMAIN releases_by_type) = 2
    /\ html # None
    /\ \A i \in 1..Len(html[1].downloads) : Inert(html[1].downloads[i].control)

(***************************************************************************)
(* C8: the primary control depends on the platform only: on Windows one    *)
(* control bound to the WindowsInstaller entry, on MacOS one bound to the  *)
(* MacInstaller entry, on Linux and Unknown none.                          *)
(***************************************************************************)
C8_PrimaryControl ==
    Rendered =>
        LET os == IF env.user_agent.ok THEN Platform(env.user_agent.value)
                  ELSE "Unknown"
            m == ExpectedMap(releases.data)
            primary == html[1].primary
        IN  /\ Len(primary) <= 1
            /\ os = "Windows" =>
                   Len(primary) = 1 /\ BoundTo(primary[1], m, "WindowsInstaller")
            /\ os = "MacOS" =>
                   Len(primary) = 1 /\ BoundTo(primary[1], m, "MacInstaller")
            /\ os \in {"Linux", "Unknown"} => primary = <<>>

\* On Windows, with a portable build and an installer released, the primary
\* control links to the installer.
C8_Witness ==
    /\ Rendered
    /\ DOMAIN releases_by_type = {"WindowsInstaller", "WindowsPortable"}
    /\ releases_by_type["WindowsInstaller"] # releases_by_type["WindowsPortable"]
    /\ Len(html[1].primary) = 1
    /\ ActiveTo(html[1].primary[1], releases_by_type["WindowsInstaller"])

(***************************************************************************)
(* C9: every rendered Downloads list has exactly one control per category, *)
(* seven in all; it links to the category's URL when the map has one and   *)
(* is inert otherwise.                                                     *)
(***************************************************************************)
C9_DownloadsList ==
    Rendered =>
        LET m == ExpectedMap(releases.data)
            downloads == html[1].downloads
        IN  /\ Len(downloads) = Cardinality(DownloadType)
            /\ \A c \in DownloadType :
                   /\ Cardinality(ControlsFor(downloads, c)) = 1
                   /\ \A i \in ControlsFor(downloads, c) :
                          BoundTo(downloads[i].control, m, c)

\* On Linux: the Linux portable build is linked, the AppImage control inert.
C9_Witness ==
    /\ Rendered /\ operating_system = "Linux"
    /\ DOMAIN releases_by_type = {"LinuxPortable", "MacInstaller"}
    /\ \E i \in 1..Len(html[1].downloads) :
           /\ i \in ControlsFor(html[1].downloads, "LinuxPortable")
           /\ ActiveTo(html[1].downloads[i].control, releases_by_type["LinuxPortable"])
    /\ \E i \in 1..Len(html[1].downloads) :
           /\ i \in ControlsFor(html[1].downloads, "LinuxAppImage")
           /\ Inert(html[1].downloads[i].control)

(***************************************************************************)
(* C10: the loop run over any reordering of the assets gives, for every    *)
(* category that at most one asset classifies to, the same entry (or the   *)
(* same absence) as the pass gave; so a release with no two assets of one  *)
(* category gives the same map in every order.                             *)
(***************************************************************************)
C10_OrderIndependence ==
    (LoopDone /\ releases.data # None) =>
        \A p \in Reorderings(Assets) :
            LET other == for_from(HashMap_new, p, 1)
            IN  /\ \A c \in DownloadType :
                       Cardinality(Classifying(Assets, c)) <= 1 =>
                           get(other, c) = get(releases_by_type, c)
                /\ (\A c \in DownloadType : Cardinality(Classifying(Assets, c)) <= 1)
                       => other = releases_by_type

\* Two assets of different categories and an order that is not the only one.
C10_Witness ==
    /\ LoopDone /\ Len(Assets) = 2
    /\ Cardinality(DOMAIN releases_by_type) = 2
    /\ Assets[1].browser_download_url # Assets[2].browser_download_url

=============================================================================
